---- MODULE Spec2Model ----
(***************************************************************************)
(* Ingestion pipeline of api-analytics: the logger's request handler       *)
(* (server/logger/main.go, logRequestHandler) with its privacy redaction,  *)
(* per-event validation, batched insert construction and storage call, and *)
(* the Go client's capture buffer (analytics/go/core/core.go, LogRequest   *)
(* and postRequest).                                                       *)
(*                                                                         *)
(* One handler invocation is modelled as a sequence of steps, pc naming    *)
(* the position in the handler.  Collaborators whose code is outside the   *)
(* source tree (rate limiter, field validators, storage connection,        *)
(* GeoIP database) are modelled at their interface.                        *)
(***************************************************************************)
EXTENDS Integers, Sequences, FiniteSets, TLC

VARIABLES
    pc,             \* position of the handler: idle, bind, admitted, loop, logged, connect, exec, close,
                    \* respond, done
    body,           \* the request body as received
    payload,        \* the decoded Payload (valid once BindJSON succeeded)
    idx,            \* index of the element of payload.Requests the range loop visits next
    framework,      \* frameworkID[payload.Framework]
    query,          \* strings.Builder, as a sequence of tokens
    arguments,      \* arguments []any
    inserted,       \* inserted int
    badUserAgents,  \* badUserAgents []string
    conn,           \* the storage connection of this invocation: none, open, closed
    execErr,        \* err returned by conn.Exec: none (not called), nil, error
    stored,         \* rows written by this invocation's insert
    responses,      \* status codes written with c.JSON by this invocation
    accessCount,    \* rate limiter state: admitted batches per API key in the current window
    limiterCalls,   \* history: the results of the RateLimited calls of this invocation
    origin,         \* history: for each admitted row, the input index and whether the GeoIP database opened
    requests,       \* client: var requests []RequestData, the capture buffer
    lastPosted,     \* client: var lastPosted time.Time
    clock,          \* client: the process clock read by time.Now and time.Since, in seconds
    call,           \* client: for each caller, its LogRequest call: position, parameters, locals
    sender,         \* client: the postRequest goroutines started, each with its arguments and progress
    captured,       \* history: the LogRequest calls made with a non-empty key, with their parameters
    started         \* history: the number of LogRequest calls made

server == <<pc, body, payload, idx, framework, query, arguments, inserted,
            badUserAgents, conn, execErr, stored, responses, accessCount,
            limiterCalls, origin>>

client == <<requests, lastPosted, clock, call, sender, captured, started>>

vars == <<pc, body, payload, idx, framework, query, arguments, inserted,
          badUserAgents, conn, execErr, stored, responses, accessCount,
          limiterCalls, origin, requests, lastPosted, clock, call, sender,
          captured, started>>

-----------------------------------------------------------------------------
(* Bounds of the model *)

\* longest request list of an enumerated batch
MaxBatch == 2

\* how far the batches built around the insert ceiling overshoot it
Overshoot == 1

\* admitted batches per key and window
RateLimit == 1

\* LogRequest calls made by the client
MaxCalls == 2

\* the latest time the client's clock reaches, in seconds
MaxClock == 121

-----------------------------------------------------------------------------
(* Program constants *)

P1 == 0
P2 == 1
P3 == 2

maxInsert == 2000

MaxFieldLen == 255

ColumnsPerRow == 12

StatusBadRequest == 400
StatusTooManyRequests == 429
StatusCreated == 201

Int16 == -32768..32767

methodID ==
    [m \in {"GET", "POST", "PUT", "PATCH", "DELETE", "OPTIONS", "CONNECT", "HEAD", "TRACE"} |->
        CASE m = "GET" -> 0
          [] m = "POST" -> 1
          [] m = "PUT" -> 2
          [] m = "PATCH" -> 3
          [] m = "DELETE" -> 4
          [] m = "OPTIONS" -> 5
          [] m = "CONNECT" -> 6
          [] m = "HEAD" -> 7
          [] m = "TRACE" -> 8]

frameworkID ==
    [f \in {"FastAPI", "Flask", "Gin", "Echo", "Express", "Fastify", "Koa", "Chi", "Fiber",
            "Actix", "Axum", "Tornado", "Django", "Rails", "Laravel", "Sinatra", "Rocket",
            "ASP.NET Core"} |->
        CASE f = "FastAPI" -> 0
          [] f = "Flask" -> 1
          [] f = "Gin" -> 2
          [] f = "Echo" -> 3
          [] f = "Express" -> 4
          [] f = "Fastify" -> 5
          [] f = "Koa" -> 6
          [] f = "Chi" -> 7
          [] f = "Fiber" -> 8
          [] f = "Actix" -> 9
          [] f = "Axum" -> 10
          [] f = "Tornado" -> 11
          [] f = "Django" -> 12
          [] f = "Rails" -> 13
          [] f = "Laravel" -> 14
          [] f = "Sinatra" -> 15
          [] f = "Rocket" -> 16
          [] f = "ASP.NET Core" -> 17]

-----------------------------------------------------------------------------
(* Text fields are sequences of characters; "ctl" is a control character,  *)
(* every other character is printable.                                     *)

Chars(n, c) == [k \in 1..n |-> c]

\* s[:255] when len(s) > 255
Truncate(s) == IF Len(s) > MaxFieldLen THEN SubSeq(s, 1, MaxFieldLen) ELSE s

NoControlChars(s) == \A k \in 1..Len(s) : s[k] # "ctl"

ValidUserAgent(s) == NoControlChars(s)
ValidUserID(s) == NoControlChars(s)
ValidHostname(s) == NoControlChars(s)
ValidPath(s) == NoControlChars(s)

-----------------------------------------------------------------------------
(* GeoIP collaborator *)

\* net.ParseIP: nil for a string that is not an IP address
ParseIP(ip) == ip \in {"8.8.8.8", "10.0.0.1"}

\* db.Country(ip).Country.IsoCode for the addresses of the model: a private
\* address has no country
IsoCode(ip) == IF ip = "8.8.8.8" THEN "US" ELSE ""

\* getCountryCode, opened being the outcome of geoip2.Open
getCountryCode(IPAddress, opened) ==
    IF IPAddress = "" THEN ""
    ELSE IF ~opened THEN ""
    ELSE IF ~ParseIP(IPAddress) THEN ""
    ELSE IsoCode(IPAddress)

-----------------------------------------------------------------------------
(* Inputs *)

BaseEvent ==
    [path |-> <<"/", "x">>, hostname |-> <<>>, ip_address |-> "8.8.8.8",
     user_agent |-> <<"u", "a">>, method |-> "GET", status |-> 200,
     response_time |-> 12, user_id |-> <<>>, created_at |-> "2024-01-01T00:00:00Z"]

EventVariants ==
    { BaseEvent,
      [BaseEvent EXCEPT !.ip_address = "", !.method = "POST", !.hostname = <<"h">>,
                        !.user_id = <<"i", "d">>],
      [BaseEvent EXCEPT !.ip_address = "bad"],
      [BaseEvent EXCEPT !.ip_address = "10.0.0.1"],
      [BaseEvent EXCEPT !.method = "BOGUS"],
      [BaseEvent EXCEPT !.user_agent = <<"ctl">>],
      [BaseEvent EXCEPT !.user_agent = Chars(MaxFieldLen, "a") \o <<"ctl">>],
      [BaseEvent EXCEPT !.user_id = <<"ctl">>],
      [BaseEvent EXCEPT !.hostname = <<"ctl">>],
      [BaseEvent EXCEPT !.path = <<"ctl">>],
      [BaseEvent EXCEPT !.status = 40000] }

RequestLists == UNION { [1..n -> EventVariants] : n \in 0..MaxBatch }

APIKeys == {"", "k1"}
Frameworks == {"Flask", "Unknown"}
PrivacyLevels == {P1, P2, P3}

Bodies ==
    [wellFormed : {TRUE}, api_key : APIKeys, requests : RequestLists,
     framework : Frameworks, privacy_level : PrivacyLevels]
    \cup
    [wellFormed : {FALSE}, api_key : {"k1"}, requests : {<<BaseEvent>>},
     framework : {"Flask"}, privacy_level : {P1}]

\* batches around the insert ceiling: well-formed events without an address
CeilingEvent == [BaseEvent EXCEPT !.ip_address = ""]

\* an event the handler drops
DroppedEvent == [BaseEvent EXCEPT !.method = "BOGUS"]

\* batches that mix admitted and dropped events: a dropped event first, in
\* the middle, last, and first in a batch that then fills the insert
MixedLists ==
    { <<DroppedEvent, BaseEvent, BaseEvent>>,
      <<BaseEvent, DroppedEvent, BaseEvent>>,
      <<BaseEvent, BaseEvent, DroppedEvent>>,
      [k \in 1..(maxInsert + Overshoot) |-> IF k = 1 THEN DroppedEvent ELSE CeilingEvent] }

CeilingBodies ==
    [wellFormed : {TRUE}, api_key : {"k1"},
     requests : { [k \in 1..n |-> CeilingEvent] : n \in {maxInsert, maxInsert + Overshoot, 3000} },
     framework : {"Flask"}, privacy_level : {P1}]
    \cup
    [wellFormed : {TRUE}, api_key : {"k1"}, requests : MixedLists,
     framework : {"Flask"}, privacy_level : {P1}]
    \cup
    [wellFormed : BOOLEAN, api_key : APIKeys,
     requests : { <<>>, <<BaseEvent>>, <<[BaseEvent EXCEPT !.method = "BOGUS"]>> },
     framework : Frameworks, privacy_level : {P1}]

-----------------------------------------------------------------------------
(* c.BindJSON: fails on a malformed body and on a number that does not fit *)
(* the int16 fields Status and ResponseTime                                *)

\* the elements of the request list whose numbers overflow int16
Overflowing(b) ==
    { k \in 1..Len(b.requests) :
         \/ b.requests[k].status \notin Int16
         \/ b.requests[k].response_time \notin Int16 }

\* mutant: the numbers are decoded into fields as wide as the client's
BindJSONOkAnyNumber(b) == b.wellFormed

BindJSONOk(b) == b.wellFormed /\ Overflowing(b) = {}

Decode(b) ==
    [APIKey |-> b.api_key, Requests |-> b.requests,
     Framework |-> b.framework, PrivacyLevel |-> b.privacy_level]

NoBody ==
    [wellFormed |-> FALSE, api_key |-> "", requests |-> <<>>,
     framework |-> "", privacy_level |-> P1]

NoPayload == [APIKey |-> "", Requests |-> <<>>, Framework |-> "", PrivacyLevel |-> P1]

-----------------------------------------------------------------------------
(* The Go client: constants, inputs and initial state *)

\* time.Minute, in seconds
Minute == 60

\* the time that passes between two readings of the clock
Advances == {60, 61}

\* the goroutines that call LogRequest
Callers == {1, 2}

ClientKeys == {"", "k1", "k2"}

\* the parameters the middleware of an application passes: API key,
\* framework, privacy level
CallSites ==
    { [apiKey |-> "", framework |-> "Gin", privacyLevel |-> 0],
      [apiKey |-> "k1", framework |-> "Gin", privacyLevel |-> 0],
      [apiKey |-> "k2", framework |-> "Echo", privacyLevel |-> 2] }

\* the client's RequestData: Status is an int and ResponseTime an int64, so
\* both hold numbers an int16 does not
ClientEvents ==
    { BaseEvent,
      [BaseEvent EXCEPT !.status = 40000],
      [BaseEvent EXCEPT !.response_time = -40000] }

\* the call sites of the concurrent callers
RacingSites == { site \in CallSites : site.apiKey \in {"", "k1"} }

\* the events captured by the concurrent callers
RacingEvents == { BaseEvent, [BaseEvent EXCEPT !.status = 40000] }

\* the Payloads handed to postRequest so far, in the order of the go
\* statements
Batches == [i \in 1..Len(sender) |-> sender[i].data]

\* what a call found when it began (history)
Snapshot ==
    [requests |-> requests, lastPosted |-> lastPosted, batches |-> Batches,
     clock |-> clock]

NoSnapshot == [requests |-> <<>>, lastPosted |-> 0, batches |-> <<>>, clock |-> 0]

\* a caller outside LogRequest
NoCall ==
    [pc |-> "out", apiKey |-> "", request |-> BaseEvent, framework |-> "",
     privacyLevel |-> 0, now |-> 0, loaded |-> <<>>, sinceAt |-> 0,
     entry |-> NoSnapshot]

\* lines 10-11: requests is nil and lastPosted is the time the package was
\* initialised
InitClient ==
    /\ requests = <<>>
    /\ lastPosted = 0
    /\ clock = 0
    /\ call = [c \in Callers |-> NoCall]
    /\ sender = <<>>
    /\ captured = <<>>
    /\ started = 0

-----------------------------------------------------------------------------
(* Rate limiter *)

RateLimited(key) == accessCount[key] >= RateLimit

-----------------------------------------------------------------------------
(* The handler *)

InsertHeader == <<"INSERT INTO requests (api_key, path, hostname, ip_address, user_agent, status, response_time, method, framework, location, user_id, created_at) VALUES ">>

Init ==
    /\ pc = "idle"
    /\ body = NoBody
    /\ payload = NoPayload
    /\ idx = 1
    /\ framework = -1
    /\ query = <<>>
    /\ arguments = <<>>
    /\ inserted = 0
    /\ badUserAgents = <<>>
    /\ conn = "none"
    /\ execErr = "none"
    /\ stored = <<>>
    /\ responses = <<>>
    /\ accessCount = [k \in (APIKeys \cup ClientKeys) \ {""} |-> 0]
    /\ limiterCalls = <<>>
    /\ origin = <<>>
    /\ InitClient

\* a request arrives and a handler invocation starts
Receive(b) ==
    /\ pc = "idle"
    /\ pc' = "bind"
    /\ body' = b
    /\ UNCHANGED <<payload, idx, framework, query, arguments, inserted,
                   badUserAgents, conn, execErr, stored, responses, accessCount, limiterCalls, origin>>
    /\ UNCHANGED client

\* c.JSON(status, ...) followed by return
Reply(status) ==
    /\ responses' = Append(responses, status)
    /\ pc' = "done"

\* lines 125-130
BindError ==
    /\ pc = "bind"
    /\ ~BindJSONOk(body)
    /\ Reply(StatusBadRequest)
    /\ UNCHANGED <<body, payload, idx, framework, query, arguments, inserted,
                   badUserAgents, conn, execErr, stored, accessCount, limiterCalls, origin>>
    /\ UNCHANGED client

\* mutant: the rate limiter is asked before the key is tested
APIKeyRequiredAfterLimiter ==
    /\ pc = "bind"
    /\ BindJSONOk(body)
    /\ body.api_key = ""
    /\ payload' = Decode(body)
    /\ limiterCalls' = Append(limiterCalls, FALSE)
    /\ Reply(StatusBadRequest)
    /\ UNCHANGED <<body, idx, framework, query, arguments, inserted,
                   badUserAgents, conn, execErr, stored, accessCount, origin>>
    /\ UNCHANGED client

\* lines 131-135
APIKeyRequired ==
    /\ pc = "bind"
    /\ BindJSONOk(body)
    /\ body.api_key = ""
    /\ payload' = Decode(body)
    /\ Reply(StatusBadRequest)
    /\ UNCHANGED <<body, idx, framework, query, arguments, inserted,
                   badUserAgents, conn, execErr, stored, accessCount, limiterCalls, origin>>
    /\ UNCHANGED client

\* mutant: a denied batch answered as a bad request
DeniedStatusBadRequest == StatusBadRequest

\* line 139: the status that answers a denied batch
DeniedStatus == StatusTooManyRequests

\* mutant: the return after the 429 is missing
TooManyRequestsFallsThrough ==
    /\ pc = "bind"
    /\ BindJSONOk(body)
    /\ body.api_key # ""
    /\ RateLimited(body.api_key)
    /\ limiterCalls' = Append(limiterCalls, TRUE)
    /\ payload' = Decode(body)
    /\ responses' = Append(responses, StatusTooManyRequests)
    /\ pc' = "admitted"
    /\ UNCHANGED <<body, idx, framework, query, arguments, inserted,
                   badUserAgents, conn, execErr, stored, accessCount, origin>>
    /\ UNCHANGED client

\* lines 136-140
TooManyRequests ==
    /\ pc = "bind"
    /\ BindJSONOk(body)
    /\ body.api_key # ""
    /\ RateLimited(body.api_key)
    /\ limiterCalls' = Append(limiterCalls, TRUE)
    /\ payload' = Decode(body)
    /\ Reply(DeniedStatus)
    /\ UNCHANGED <<body, idx, framework, query, arguments, inserted,
                   badUserAgents, conn, execErr, stored, accessCount, origin>>
    /\ UNCHANGED client

\* line 136, the limiter admitting the batch
Admit ==
    /\ pc = "bind"
    /\ BindJSONOk(body)
    /\ body.api_key # ""
    /\ ~RateLimited(body.api_key)
    /\ accessCount' = [accessCount EXCEPT ![body.api_key] = @ + 1]
    /\ limiterCalls' = Append(limiterCalls, FALSE)
    /\ payload' = Decode(body)
    /\ pc' = "admitted"
    /\ UNCHANGED <<body, idx, framework, query, arguments, inserted,
                   badUserAgents, conn, execErr, stored, responses, origin>>
    /\ UNCHANGED client

\* lines 141-146
NoRequests ==
    /\ pc = "admitted"
    /\ Len(payload.Requests) = 0
    /\ Reply(StatusBadRequest)
    /\ UNCHANGED <<body, payload, idx, framework, query, arguments, inserted,
                   badUserAgents, conn, execErr, stored, accessCount, limiterCalls, origin>>
    /\ UNCHANGED client

\* lines 148-152
UnsupportedFramework ==
    /\ pc = "admitted"
    /\ Len(payload.Requests) # 0
    /\ payload.Framework \notin DOMAIN frameworkID
    /\ Reply(StatusBadRequest)
    /\ UNCHANGED <<body, payload, idx, framework, query, arguments, inserted,
                   badUserAgents, conn, execErr, stored, accessCount, limiterCalls, origin>>
    /\ UNCHANGED client

\* lines 148, 154-158
StartLoop ==
    /\ pc = "admitted"
    /\ Len(payload.Requests) # 0
    /\ payload.Framework \in DOMAIN frameworkID
    /\ framework' = frameworkID[payload.Framework]
    /\ query' = <<InsertHeader>>
    /\ pc' = "loop"
    /\ UNCHANGED <<body, payload, idx, arguments, inserted, badUserAgents,
                   conn, execErr, stored, responses, accessCount, limiterCalls, origin>>
    /\ UNCHANGED client

\* mutant: the address is discarded for P3 only
RedactP3Only(level, IPAddress) ==
    IF level > P2 THEN "" ELSE IPAddress

\* mutant: the address is discarded for every level
RedactAlways(level, IPAddress) ==
    IF level >= P1 THEN "" ELSE IPAddress

\* mutant: an address already empty is given the unspecified address
RedactEmptyToUnspecified(level, IPAddress) ==
    IF level > P1 THEN (IF IPAddress = "" THEN "0.0.0.0" ELSE "") ELSE IPAddress

\* lines 171-174: the address is discarded for P2 and P3
Redact(level, IPAddress) ==
    IF level > P1 THEN "" ELSE IPAddress

\* mutant: the location is inferred after the address was cleared
LocateAfterRedact(level, IPAddress, opened) ==
    IF level < P3 THEN getCountryCode(Redact(level, IPAddress), opened) ELSE ""

\* lines 165-169: the location is inferred for P1 and P2 only
Locate(level, IPAddress, opened) ==
    IF level < P3 THEN getCountryCode(IPAddress, opened) ELSE ""

\* lines 165-174: the redaction step of the loop on one event: the event as
\* it leaves the step, and the location
RedactionStep(level, request, opened) ==
    [request |-> [request EXCEPT !.ip_address = Redact(level, request.ip_address)],
     location |-> Locate(level, request.ip_address, opened)]

\* mutant: the hostname check is missing
AdmissibleNoHostname(request) ==
    /\ request.method \in DOMAIN methodID
    /\ ValidUserAgent(Truncate(request.user_agent))
    /\ ValidUserID(Truncate(request.user_id))
    /\ ValidPath(Truncate(request.path))

\* lines 176-208: the checks an event passes to be admitted, on the
\* truncated fields
Admissible(request) ==
    /\ request.method \in DOMAIN methodID
    /\ ValidUserAgent(Truncate(request.user_agent))
    /\ ValidUserID(Truncate(request.user_id))
    /\ ValidHostname(Truncate(request.hostname))
    /\ ValidPath(Truncate(request.path))

\* lines 184-187: the user agent is collected when it is the failing check
BadUserAgent(request) ==
    /\ request.method \in DOMAIN methodID
    /\ ~ValidUserAgent(Truncate(request.user_agent))

\* mutant: the comma is written before the first row too
NeedsCommaFromFirst(n, total) == n >= 0 /\ n < maxInsert /\ n < total

\* line 211: "if not at final row in query, separate with comma"
NeedsComma(n, total) == n > 0 /\ n < maxInsert /\ n < total

\* mutant: the placeholders are numbered from the length of the arguments
GroupFromZero(numArgs) ==
    <<"group", numArgs, numArgs + 1, numArgs + 2, numArgs + 3, numArgs + 4,
      numArgs + 5, numArgs + 6, numArgs + 7, numArgs + 8, numArgs + 9,
      numArgs + 10, numArgs + 11>>

\* lines 214-229: one placeholder group, numbered after the arguments so far
Group(numArgs) ==
    <<"group", numArgs + 1, numArgs + 2, numArgs + 3, numArgs + 4, numArgs + 5,
      numArgs + 6, numArgs + 7, numArgs + 8, numArgs + 9, numArgs + 10,
      numArgs + 11, numArgs + 12>>

\* mutant: method and framework in each other's place
RowArgumentsSwapped(apiKey, request, IPAddress, method, fw, location) ==
    <<apiKey, Truncate(request.path), Truncate(request.hostname), IPAddress,
      Truncate(request.user_agent), request.status, request.response_time,
      fw, method, location, Truncate(request.user_id), request.created_at>>

\* lines 230-243: the arguments of one row
RowArguments(apiKey, request, IPAddress, method, fw, location) ==
    <<apiKey, Truncate(request.path), Truncate(request.hostname), IPAddress,
      Truncate(request.user_agent), request.status, request.response_time,
      method, fw, location, Truncate(request.user_id), request.created_at>>

\* mutant: the ceiling is tested one row late
AtCeilingOffByOne(n) == n > maxInsert

\* line 161: the ceiling on the rows of one insert is reached
AtCeiling(n) == n >= maxInsert

\* mutant: the test for an empty insert never fires
NoRowsNever(n) == n < 0

\* line 259: no valid logged request was received
NoRows(n) == n = 0

\* the elements of payload.Requests for which getCountryCode opens the
\* GeoIP database
Lookups ==
    { k \in 1..Len(payload.Requests) :
         payload.PrivacyLevel < P3 /\ payload.Requests[k].ip_address # "" }

\* lines 159-245: the iteration of the range loop for payload.Requests[k], on
\* the loop's variables L; closed holds the elements at which geoip2.Open
\* fails.  After the break at the ceiling no iteration runs.
Iteration(L, k, closed) ==
    IF AtCeiling(L.inserted) THEN L
    ELSE
        LET request == payload.Requests[k]
            level == payload.PrivacyLevel
            opened == k \notin closed
            location == Locate(level, request.ip_address, opened)
            IPAddress == Redact(level, request.ip_address)
        IN IF Admissible(request)
           THEN [idx |-> k + 1,
                 query |-> (IF NeedsComma(L.inserted, Len(payload.Requests))
                            THEN Append(L.query, <<",">>) ELSE L.query)
                           \o <<Group(Len(L.arguments))>>,
                 arguments |-> L.arguments \o
                     RowArguments(payload.APIKey, request, IPAddress,
                                  methodID[request.method], framework, location),
                 inserted |-> L.inserted + 1,
                 badUserAgents |-> L.badUserAgents,
                 origin |-> Append(L.origin, [index |-> k, opened |-> opened])]
           ELSE [L EXCEPT !.idx = k + 1,
                          !.badUserAgents =
                              IF BadUserAgent(request)
                              THEN Append(@, Truncate(request.user_agent))
                              ELSE @]

\* the iterations for payload.Requests[lo..hi] in input order, up to the
\* break (the range is split in halves, which bounds the nesting of the
\* evaluation)
RECURSIVE Iterations(_, _, _, _)
Iterations(L, lo, hi, closed) ==
    IF lo > hi THEN L
    ELSE IF lo = hi THEN Iteration(L, lo, closed)
    ELSE LET mid == (lo + hi) \div 2
             half == Iterations(L, lo, mid, closed)
         IN IF AtCeiling(half.inserted) THEN half
            ELSE Iterations(half, mid + 1, hi, closed)

\* lines 159-245: the range loop over payload.Requests
Loop ==
    /\ pc = "loop"
    /\ \E closed \in SUBSET Lookups :
          LET L == Iterations([idx |-> idx, query |-> query, arguments |-> arguments,
                               inserted |-> inserted, badUserAgents |-> badUserAgents,
                               origin |-> origin],
                              1, Len(payload.Requests), closed)
          IN /\ idx' = L.idx
             /\ query' = L.query
             /\ arguments' = L.arguments
             /\ inserted' = L.inserted
             /\ badUserAgents' = L.badUserAgents
             /\ origin' = L.origin
    /\ pc' = "logged"
    /\ UNCHANGED <<body, payload, framework, conn, execErr, stored,
                   responses, accessCount, limiterCalls>>
    /\ UNCHANGED client

\* lines 258-263
NoRowsInserted ==
    /\ pc = "logged"
    /\ NoRows(inserted)
    /\ Reply(StatusBadRequest)
    /\ UNCHANGED <<body, payload, idx, framework, query, arguments, inserted,
                   badUserAgents, conn, execErr, stored, accessCount, limiterCalls, origin>>
    /\ UNCHANGED client

\* line 265
CloseQuery ==
    /\ pc = "logged"
    /\ ~NoRows(inserted)
    /\ query' = Append(query, <<";">>)
    /\ pc' = "connect"
    /\ UNCHANGED <<body, payload, idx, framework, arguments, inserted,
                   badUserAgents, conn, execErr, stored, responses, accessCount, limiterCalls, origin>>
    /\ UNCHANGED client

\* line 268
NewConnection ==
    /\ pc = "connect"
    /\ conn' = "open"
    /\ pc' = "exec"
    /\ UNCHANGED <<body, payload, idx, framework, query, arguments, inserted,
                   badUserAgents, execErr, stored, responses, accessCount, limiterCalls, origin>>
    /\ UNCHANGED client

\* line 269: the statement is executed; storage accepts it or fails
Exec ==
    /\ pc = "exec"
    /\ \E err \in {"nil", "error"} :
          /\ execErr' = err
          /\ stored' = IF err = "nil" THEN arguments ELSE <<>>
    /\ pc' = "close"
    /\ UNCHANGED <<body, payload, idx, framework, query, arguments, inserted,
                   badUserAgents, conn, responses, accessCount, limiterCalls, origin>>
    /\ UNCHANGED client

\* mutant: the connection is not released
CloseMissing ==
    /\ pc = "close"
    /\ pc' = "respond"
    /\ UNCHANGED <<body, payload, idx, framework, query, arguments, inserted,
                   badUserAgents, conn, execErr, stored, responses, accessCount, limiterCalls, origin>>
    /\ UNCHANGED client

\* line 270
Close ==
    /\ pc = "close"
    /\ conn' = "closed"
    /\ pc' = "respond"
    /\ UNCHANGED <<body, payload, idx, framework, query, arguments, inserted,
                   badUserAgents, execErr, stored, responses, accessCount, limiterCalls, origin>>
    /\ UNCHANGED client

\* mutant: the error of the storage call is ignored
ExecStatusIgnoresError(err) == StatusCreated

\* lines 271-278: the status that answers the storage call
ExecStatus(err) == IF err # "nil" THEN StatusBadRequest ELSE StatusCreated

Respond ==
    /\ pc = "respond"
    /\ Reply(ExecStatus(execErr))
    /\ UNCHANGED <<body, payload, idx, framework, query, arguments, inserted,
                   badUserAgents, conn, execErr, stored, accessCount, limiterCalls, origin>>
    /\ UNCHANGED client

\* the handler function returns; its locals are gone
Return ==
    /\ pc = "done"
    /\ pc' = "idle"
    /\ body' = NoBody
    /\ payload' = NoPayload
    /\ idx' = 1
    /\ framework' = -1
    /\ query' = <<>>
    /\ arguments' = <<>>
    /\ inserted' = 0
    /\ badUserAgents' = <<>>
    /\ conn' = "none"
    /\ execErr' = "none"
    /\ stored' = <<>>
    /\ responses' = <<>>
    /\ limiterCalls' = <<>>
    /\ origin' = <<>>
    /\ UNCHANGED accessCount
    /\ UNCHANGED client

\* the rate limiter's window elapses (between two invocations: the handler
\* reads the limiter once, so a later reset changes nothing it does)
WindowElapsed ==
    /\ pc = "idle"
    /\ \E k \in DOMAIN accessCount : accessCount[k] > 0
    /\ accessCount' = [k \in DOMAIN accessCount |-> 0]
    /\ UNCHANGED <<pc, body, payload, idx, framework, query, arguments, inserted,
                   badUserAgents, conn, execErr, stored, responses, limiterCalls, origin>>
    /\ UNCHANGED client

Handler ==
    \/ BindError
    \/ APIKeyRequired
    \/ TooManyRequests
    \/ Admit
    \/ NoRequests
    \/ UnsupportedFramework
    \/ StartLoop
    \/ Loop
    \/ NoRowsInserted
    \/ CloseQuery
    \/ NewConnection
    \/ Exec
    \/ Close
    \/ Respond
    \/ Return

-----------------------------------------------------------------------------
(* The Go client: LogRequest and postRequest.  A call is a sequence of     *)
(* steps, one for each reading or writing of the package's variables, so   *)
(* that calls of different goroutines interleave as the code allows: no    *)
(* lock is taken.                                                          *)

\* line 45: caller c enters LogRequest
Enter(c, site, request) ==
    /\ call[c].pc = "out"
    /\ started < MaxCalls
    /\ call' = [call EXCEPT ![c] =
                  [NoCall EXCEPT !.pc = "key", !.apiKey = site.apiKey,
                                 !.request = request, !.framework = site.framework,
                                 !.privacyLevel = site.privacyLevel,
                                 !.entry = Snapshot]]
    /\ started' = started + 1
    /\ captured' = IF site.apiKey # ""
                   THEN Append(captured, [apiKey |-> site.apiKey, request |-> request,
                                          framework |-> site.framework,
                                          privacyLevel |-> site.privacyLevel])
                   ELSE captured
    /\ UNCHANGED <<requests, lastPosted, clock, sender>>
    /\ UNCHANGED server

\* mutant: the test of the key is missing
KeyMissingNever(apiKey) == apiKey # apiKey

\* line 46
KeyMissing(apiKey) == apiKey = ""

\* lines 46-48: without a key the call returns
NoKey(c) ==
    /\ call[c].pc = "key"
    /\ KeyMissing(call[c].apiKey)
    /\ call' = [call EXCEPT ![c].pc = "ret"]
    /\ UNCHANGED <<requests, lastPosted, clock, sender, captured, started>>
    /\ UNCHANGED server

\* line 49: now := time.Now()
Now(c) ==
    /\ call[c].pc = "key"
    /\ ~KeyMissing(call[c].apiKey)
    /\ call' = [call EXCEPT ![c].pc = "load", ![c].now = clock]
    /\ UNCHANGED <<requests, lastPosted, clock, sender, captured, started>>
    /\ UNCHANGED server

\* line 50, the reading of requests by append
Load(c) ==
    /\ call[c].pc = "load"
    /\ call' = [call EXCEPT ![c].pc = "store", ![c].loaded = requests]
    /\ UNCHANGED <<requests, lastPosted, clock, sender, captured, started>>
    /\ UNCHANGED server

\* line 50, the assignment of append's result to requests
Store(c) ==
    /\ call[c].pc = "store"
    /\ requests' = Append(call[c].loaded, call[c].request)
    /\ call' = [call EXCEPT ![c].pc = "since"]
    /\ UNCHANGED <<lastPosted, clock, sender, captured, started>>
    /\ UNCHANGED server

\* mutant: a flush is due from one minute on
OverdueFromMinute(elapsed) == elapsed >= Minute

\* line 51: time.Since(lastPosted) > time.Minute
Overdue(elapsed) == elapsed > Minute

\* line 51: time.Since reads the clock again
Since(c) ==
    /\ call[c].pc = "since"
    /\ call' = [call EXCEPT ![c].sinceAt = clock,
                            ![c].pc = IF Overdue(clock - lastPosted) THEN "go" ELSE "ret"]
    /\ UNCHANGED <<requests, lastPosted, clock, sender, captured, started>>
    /\ UNCHANGED server

\* mutant: the batch carries the parameters of the package's defaults
PostArgumentsDefault(apiKey, buffer, fw, privacyLevel) ==
    [APIKey |-> apiKey, Requests |-> buffer, Framework |-> fw, PrivacyLevel |-> 0]

\* line 52 and lines 33-38: the arguments of postRequest, evaluated by the
\* go statement, as the Payload built from them
PostArguments(apiKey, buffer, fw, privacyLevel) ==
    [APIKey |-> apiKey, Requests |-> buffer, Framework |-> fw,
     PrivacyLevel |-> privacyLevel]

\* line 52: go postRequest(apiKey, requests, framework, privacyLevel)
Go(c) ==
    /\ call[c].pc = "go"
    /\ sender' = Append(sender,
                   [data |-> PostArguments(call[c].apiKey, requests, call[c].framework,
                                           call[c].privacyLevel),
                    state |-> "started"])
    /\ call' = [call EXCEPT ![c].pc = "clear"]
    /\ UNCHANGED <<requests, lastPosted, clock, captured, started>>
    /\ UNCHANGED server

\* line 53: requests = nil
Clear(c) ==
    /\ call[c].pc = "clear"
    /\ requests' = <<>>
    /\ call' = [call EXCEPT ![c].pc = "stamp"]
    /\ UNCHANGED <<lastPosted, clock, sender, captured, started>>
    /\ UNCHANGED server

\* line 54: lastPosted = now
Stamp(c) ==
    /\ call[c].pc = "stamp"
    /\ lastPosted' = call[c].now
    /\ call' = [call EXCEPT ![c].pc = "ret"]
    /\ UNCHANGED <<requests, clock, sender, captured, started>>
    /\ UNCHANGED server

\* LogRequest returns to its caller
Leave(c) ==
    /\ call[c].pc = "ret"
    /\ call' = [call EXCEPT ![c] = NoCall]
    /\ UNCHANGED <<requests, lastPosted, clock, sender, captured, started>>
    /\ UNCHANGED server

\* lines 39-42: json.Marshal of the Payload; numbers are written as they are
Marshal(data) ==
    [wellFormed |-> TRUE, api_key |-> data.APIKey, requests |-> data.Requests,
     framework |-> data.Framework, privacy_level |-> data.PrivacyLevel]

\* lines 32-43: a started postRequest marshals its Payload and posts it
PostRequest(i) ==
    /\ sender[i].state = "started"
    /\ sender' = [sender EXCEPT ![i].state = "posted"]
    /\ UNCHANGED <<requests, lastPosted, clock, call, captured, started>>
    /\ UNCHANGED server

\* time passes
Tick ==
    /\ \E d \in Advances :
          /\ clock + d <= MaxClock
          /\ clock' = clock + d
    /\ UNCHANGED <<requests, lastPosted, call, sender, captured, started>>
    /\ UNCHANGED server

\* the steps of caller c inside LogRequest
LogRequest(c) ==
    \/ NoKey(c)
    \/ Now(c)
    \/ Load(c)
    \/ Store(c)
    \/ Since(c)
    \/ Go(c)
    \/ Clear(c)
    \/ Stamp(c)
    \/ Leave(c)

\* no caller is inside LogRequest
Quiet == \A c \in Callers : call[c].pc = "out"

\* a call begins while no other is running (made by caller 1: which
\* goroutine makes it changes nothing)
EnterAlone ==
    /\ Quiet
    /\ \E site \in CallSites, request \in ClientEvents :
          Enter(1, site, request)

\* a call begins, whatever the other callers are doing
EnterAny ==
    \E c \in Callers, site \in RacingSites, request \in RacingEvents :
       Enter(c, site, request)

Background == \E i \in 1..Len(sender) : PostRequest(i)

\* the client with one call at a time
NextClient ==
    \/ EnterAlone
    \/ \E c \in Callers : LogRequest(c)
    \/ Background
    \/ Tick

SpecClient == Init /\ [][NextClient]_vars

\* the client with calls from concurrent goroutines
NextConcurrent ==
    \/ EnterAny
    \/ \E c \in Callers : LogRequest(c)
    \/ Background
    \/ Tick

SpecConcurrent == Init /\ [][NextConcurrent]_vars

-----------------------------------------------------------------------------
(* The client's batches on their way to the logger *)

\* core.go line 41, main.go line 29: the body a postRequest posted arrives
\* and a handler invocation starts
Deliver(i) ==
    /\ pc = "idle"
    /\ sender[i].state = "posted"
    /\ sender' = [sender EXCEPT ![i].state = "received"]
    /\ pc' = "bind"
    /\ body' = Marshal(sender[i].data)
    /\ UNCHANGED <<payload, idx, framework, query, arguments, inserted,
                   badUserAgents, conn, execErr, stored, responses, accessCount, limiterCalls, origin>>
    /\ UNCHANGED <<requests, lastPosted, clock, call, captured, started>>

\* requests of clients other than the Go client
OtherBodies ==
    { [wellFormed |-> TRUE, api_key |-> "", requests |-> <<BaseEvent>>,
       framework |-> "Flask", privacy_level |-> P1],
      [wellFormed |-> TRUE, api_key |-> "k1", requests |-> <<>>,
       framework |-> "Flask", privacy_level |-> P1],
      [wellFormed |-> TRUE, api_key |-> "k1", requests |-> <<BaseEvent>>,
       framework |-> "Unknown", privacy_level |-> P1],
      [wellFormed |-> TRUE, api_key |-> "k1", requests |-> <<DroppedEvent>>,
       framework |-> "Flask", privacy_level |-> P1] }

\* they arrive before the Go client's first call
ArrivalOther ==
    /\ pc = "idle"
    /\ started = 0
    /\ clock = 0
    /\ \E b \in OtherBodies : Receive(b)

\* the call sites of the application that posts to the logger
PipelineSites == { site \in CallSites : site.apiKey \in {"", "k1"} }

\* a call of that application begins while no other is running
EnterPipeline ==
    /\ Quiet
    /\ \E site \in PipelineSites, request \in ClientEvents :
          Enter(1, site, request)

ArrivalClient == \E i \in 1..Len(sender) : Deliver(i)

\* the Go client, one call at a time, posting to the logger.  The client
\* and the logger are different processes that share no variable, so a
\* handler invocation is followed from arrival to return without client
\* steps in between.
NextPipeline ==
    \/ pc = "idle" /\ EnterPipeline
    \/ pc = "idle" /\ \E c \in Callers : LogRequest(c)
    \/ pc = "idle" /\ Background
    \/ pc = "idle" /\ Tick
    \/ ArrivalClient
    \/ ArrivalOther
    \/ Handler

SpecPipeline == Init /\ [][NextPipeline]_vars

\* the requests of the enumerated batches
Arrival == pc = "idle" /\ \E b \in Bodies : Receive(b)

\* the requests of the batches around the insert ceiling
ArrivalCeiling == pc = "idle" /\ \E b \in CeilingBodies : Receive(b)

Next ==
    \/ Arrival
    \/ Handler
    \/ WindowElapsed

Spec == Init /\ [][Next]_vars

NextCeiling ==
    \/ ArrivalCeiling
    \/ Handler
    \/ WindowElapsed

SpecCeiling == Init /\ [][NextCeiling]_vars

-----------------------------------------------------------------------------
(* Reading the outcome of an invocation *)

\* the arguments of row j of a flat argument list
Row(args, j) == SubSeq(args, ColumnsPerRow * (j - 1) + 1, ColumnsPerRow * j)

NumRows(args) == Len(args) \div ColumnsPerRow

TypeOK ==
    /\ Len(limiterCalls) <= 1
    /\ pc \in {"idle", "bind", "admitted", "loop", "logged", "connect", "exec", "close", "respond", "done"}
    /\ inserted \in 0..maxInsert
    /\ conn \in {"none", "open", "closed"}
    /\ execErr \in {"none", "nil", "error"}
    /\ Len(responses) <= 1

\* positions of the columns in a row's arguments
ColIP == 4
ColMethod == 8
ColFramework == 9
ColLocation == 10

Field(args, j, col) == args[ColumnsPerRow * (j - 1) + col]

\* the input event row j was built from
Event(j) == payload.Requests[origin[j].index]

\* an event that no per-event check rejects: a known method and, after
\* truncation, no control character in user agent, user id, hostname, path
KnownMethods == {"GET", "POST", "PUT", "PATCH", "DELETE", "OPTIONS", "CONNECT", "HEAD", "TRACE"}

Printable(s) == \A k \in 1..Len(s) : k > MaxFieldLen \/ s[k] # "ctl"

PassesEventChecks(e) ==
    /\ e.method \in KnownMethods
    /\ Printable(e.user_agent)
    /\ Printable(e.user_id)
    /\ Printable(e.hostname)
    /\ Printable(e.path)

\* the batch-level checks, on the request as received
Parses == body.wellFormed /\ Overflowing(body) = {}
Denied == limiterCalls = <<TRUE>>
KnownFramework == body.framework \in DOMAIN frameworkID
PassingEvents == { k \in 1..Len(body.requests) : PassesEventChecks(body.requests[k]) }


-----------------------------------------------------------------------------
(* Reading the client's state *)

\* the time.Since(lastPosted) of a call, had nothing changed lastPosted
\* since the call began
Elapsed(k) == k.sinceAt - k.entry.lastPosted

\* the Payload a call hands over when it flushes the buffer it found
FlushOf(k) ==
    [APIKey |-> k.apiKey, Requests |-> Append(k.entry.requests, k.request),
     Framework |-> k.framework, PrivacyLevel |-> k.privacyLevel]

\* the calls that have run to their return
Returned == { c \in Callers : call[c].pc = "ret" }

\* C11: a call with a non-empty key that ran alone and found more than one
\* minute elapsed since the last flush has handed exactly one batch to the
\* background sender, holding the buffer it found followed by its own event,
\* has left the buffer empty and lastPosted at the time it read when it
\* began; a call that found one minute or less has handed over nothing and has
\* left the buffer it found extended by its own event, lastPosted untouched.
C11_FlushWhenOverdue ==
    \A c \in Returned :
       LET k == call[c]
       IN k.apiKey # "" =>
             /\ k.entry.clock <= k.now /\ k.now <= k.sinceAt
             /\ IF Elapsed(k) > Minute
                THEN /\ Batches = Append(k.entry.batches, FlushOf(k))
                     /\ requests = <<>>
                     /\ lastPosted = k.now
                ELSE /\ Batches = k.entry.batches
                     /\ requests = Append(k.entry.requests, k.request)
                     /\ lastPosted = k.entry.lastPosted

\* a call that found two intervals elapsed and an event in the buffer has
\* flushed once, both events in the one batch
C11_Witness ==
    \E c \in Returned :
       /\ call[c].apiKey # ""
       /\ Elapsed(call[c]) >= 2 * Minute
       /\ Len(call[c].entry.requests) = 1
       /\ Len(Batches) = Len(call[c].entry.batches) + 1
       /\ Len(Batches[Len(Batches)].Requests) = 2
       /\ requests = <<>>

\* C12: a call with an empty key that ran alone returns from the test of the
\* key: the buffer, lastPosted and the batches handed over are as it found
\* them, also when a flush is overdue and the buffer holds events.
C12_EmptyKeyNoOp ==
    \A c \in Callers :
       (call[c].pc # "out" /\ call[c].apiKey = "") =>
          /\ call[c].pc \in {"key", "ret"}
          /\ requests = call[c].entry.requests
          /\ lastPosted = call[c].entry.lastPosted
          /\ Batches = call[c].entry.batches

\* an empty-key call returned while a flush was overdue and the buffer held
\* an event
C12_Witness ==
    \E c \in Returned :
       /\ call[c].apiKey = ""
       /\ clock - lastPosted > Minute
       /\ requests # <<>>

\* the events handed over and buffered, in order
RECURSIVE Flushed(_)
Flushed(n) == IF n = 0 THEN <<>> ELSE Flushed(n - 1) \o sender[n].data.Requests

Kept == Flushed(Len(sender)) \o requests

\* how often event e occurs in the sequence of events s
Count(e, s) == Cardinality({ i \in 1..Len(s) : s[i] = e })

\* no caller is inside LogRequest
AllReturned == \A c \in Callers : call[c].pc \in {"out", "ret"}

\* C13: once the concurrent calls have returned, every event captured with a
\* non-empty key is in exactly one batch handed over or in the buffer, as
\* often as it was captured, and no batch is empty (a flush is triggered once
\* for the events it sends).
C13_Original ==
    AllReturned =>
        /\ \A e \in ClientEvents :
              Count(e, Kept) =
                 Cardinality({ i \in 1..Len(captured) : captured[i].request = e })
        /\ \A i \in 1..Len(sender) : sender[i].data.Requests # <<>>

\* the parameters of the call that captured the i-th event
CapturedSite(i) ==
    [APIKey |-> captured[i].apiKey, Framework |-> captured[i].framework,
     PrivacyLevel |-> captured[i].privacyLevel]

\* C18: with calls that run one at a time, the events captured with any
\* non-empty key go to the one buffer in the order of the calls, and a batch
\* handed over carries the API key, framework and privacy level of the call
\* that captured its last event, the call that triggered the flush, for all
\* its events, whatever the parameters they were captured with.
C18_BatchCarriesTriggeringCall ==
    AllReturned =>
        /\ Kept = [i \in 1..Len(captured) |-> captured[i].request]
        /\ \A i \in 1..Len(sender) :
              /\ sender[i].data.Requests # <<>>
              /\ [APIKey |-> sender[i].data.APIKey,
                  Framework |-> sender[i].data.Framework,
                  PrivacyLevel |-> sender[i].data.PrivacyLevel]
                 = CapturedSite(Len(Flushed(i)))

\* a batch under key k2 and privacy level 2 whose first event was captured
\* with key k1 and privacy level 0
C18_Witness ==
    /\ AllReturned
    /\ Len(sender) = 1
    /\ Len(sender[1].data.Requests) = 2
    /\ sender[1].data.APIKey = "k2"
    /\ sender[1].data.PrivacyLevel = 2
    /\ captured[1].apiKey = "k1"
    /\ captured[1].privacyLevel = 0
    /\ sender[1].state = "posted"


-----------------------------------------------------------------------------
(* Claims *)

\* C1: under privacy level P2 or P3 the ip_address argument of every row of
\* the insert is the empty string, in the argument list being built and in
\* what the storage call receives, whatever the input address and whatever
\* events of the batch are dropped.
C1_RedactedAddressNeverStored ==
    payload.PrivacyLevel \in {P2, P3} =>
        /\ \A j \in 1..NumRows(arguments) : Field(arguments, j, ColIP) = ""
        /\ \A j \in 1..NumRows(stored) : Field(stored, j, ColIP) = ""

\* a P2/P3 batch was stored, one of its rows came from an event that carried
\* an address, and another event of the batch was dropped
C1_Witness ==
    /\ pc = "done"
    /\ payload.PrivacyLevel \in {P2, P3}
    /\ NumRows(stored) >= 1
    /\ \E j \in 1..Len(origin) : Event(j).ip_address = "8.8.8.8"
    /\ inserted < Len(payload.Requests)

\* C2: the location of every admitted row follows the privacy tier: empty
\* under P3; under P1 and P2 the country of the event's original address when
\* the database opened and the address parses, empty otherwise; and an event
\* that passes the per-event checks has a row whatever its lookup gave.
C2_LocationFollowsTier ==
    /\ Len(origin) = NumRows(arguments)
    /\ \A j \in 1..NumRows(arguments) :
          LET ip == Event(j).ip_address
          IN Field(arguments, j, ColLocation) =
                IF payload.PrivacyLevel = P3 THEN ""
                ELSE IF ip # "" /\ origin[j].opened /\ ParseIP(ip) THEN IsoCode(ip)
                ELSE ""
    /\ inserted < maxInsert =>
          \A k \in 1..(idx - 1) :
             PassesEventChecks(payload.Requests[k]) =>
                \E j \in 1..Len(origin) : origin[j].index = k
    /\ stored \in {<<>>, arguments}

\* a stored P2 batch with a located row (its address cleared) and a row whose
\* lookup failed
C2_Witness ==
    /\ pc = "done"
    /\ payload.PrivacyLevel = P2
    /\ \E j \in 1..NumRows(stored) :
          /\ Field(stored, j, ColLocation) = "US"
          /\ Field(stored, j, ColIP) = ""
    /\ \E j \in 1..NumRows(stored) :
          /\ Event(j).ip_address # ""
          /\ Field(stored, j, ColLocation) = ""

\* the scenario's batch, with the privacy level as sent
Scenario(level) ==
    [APIKey |-> "k1", Requests |-> <<BaseEvent>>, Framework |-> "Flask",
     PrivacyLevel |-> level]

\* the scenario was admitted and stored
ScenarioStored(level) ==
    /\ pc = "done"
    /\ payload = Scenario(level)
    /\ limiterCalls = <<FALSE>>
    /\ execErr = "nil"

ScenarioRow(IPAddress) ==
    /\ responses = <<StatusCreated>>
    /\ NumRows(stored) = 1
    /\ Field(stored, 1, ColIP) = IPAddress
    /\ Field(stored, 1, ColLocation) = (IF origin[1].opened THEN "US" ELSE "")
    /\ Field(stored, 1, ColMethod) = 0
    /\ Field(stored, 1, ColFramework) = 1

\* C3 as stated: the scenario sent with privacy_level 1 stores the address
\* "8.8.8.8".
C3_Original == ScenarioStored(1) => ScenarioRow("8.8.8.8")

\* C3, amended: the scenario sent with privacy_level 1 (which decodes to P2)
\* yields 201 and one row with an empty ip_address, the looked-up location
\* and the code of GET; sent with privacy_level 0 (P1) the row's ip_address
\* is "8.8.8.8".
C3_ScenarioByLevel ==
    /\ ScenarioStored(1) => ScenarioRow("")
    /\ ScenarioStored(0) => ScenarioRow("8.8.8.8")

C3_Witness == ScenarioStored(1) /\ origin[1].opened

\* C4: under P1 the ip_address of every row equals the ip_address of the
\* input event it was built from.
C4_AddressKeptUnderP1 ==
    payload.PrivacyLevel = P1 =>
        /\ \A j \in 1..NumRows(arguments) :
              Field(arguments, j, ColIP) = Event(j).ip_address
        /\ \A j \in 1..NumRows(stored) :
              Field(stored, j, ColIP) = Event(j).ip_address

C4_Witness ==
    /\ pc = "done"
    /\ payload.PrivacyLevel = P1
    /\ \E j \in 1..NumRows(stored) : Field(stored, j, ColIP) = "8.8.8.8"
    /\ \E j \in 1..NumRows(stored) : Field(stored, j, ColIP) = "bad"

\* C5: when the rate limiter denies the batch's key the handler has answered
\* 429 and returns: no event was visited, validated or redacted, no argument
\* or statement was built, no connection acquired and nothing executed.
C5_DeniedBatchUntouched ==
    (Len(limiterCalls) > 0 /\ limiterCalls[1]) =>
        /\ pc = "done"
        /\ responses = <<StatusTooManyRequests>>
        /\ idx = 1
        /\ inserted = 0
        /\ arguments = <<>>
        /\ query = <<>>
        /\ badUserAgents = <<>>
        /\ origin = <<>>
        /\ conn = "none"
        /\ execErr = "none"
        /\ stored = <<>>

\* a denied batch that holds events which would have been admitted
C5_Witness ==
    /\ Denied
    /\ responses = <<StatusTooManyRequests>>
    /\ PassingEvents # {}
    /\ KnownFramework

\* the status the ordered checks give a finished invocation: the first
\* failing check decides
ExpectedStatus ==
    IF ~Parses THEN StatusBadRequest
    ELSE IF body.api_key = "" THEN StatusBadRequest
    ELSE IF Denied THEN StatusTooManyRequests
    ELSE IF Len(body.requests) = 0 THEN StatusBadRequest
    ELSE IF ~KnownFramework THEN StatusBadRequest
    ELSE IF PassingEvents = {} THEN StatusBadRequest
    ELSE IF execErr # "nil" THEN StatusBadRequest
    ELSE StatusCreated

\* C6: an invocation writes no response before it ends and exactly one when
\* it ends, with the status of the first failing check in the order parse,
\* API key, rate limit, non-empty list, known framework, an admitted event,
\* storage success (201 when none fails); and at every branch of the handler
\* some exit or continuation is open (the range loop, over a finite list,
\* always ends).
C6_OneResponseFirstFailingCheck ==
    /\ pc = "done" => responses = <<ExpectedStatus>>
    /\ pc # "done" => responses = <<>>
    /\ pc = "bind" => ENABLED (BindError \/ APIKeyRequired \/ TooManyRequests \/ Admit)
    /\ pc = "admitted" => ENABLED (NoRequests \/ UnsupportedFramework \/ StartLoop)
    /\ pc = "logged" => ENABLED (NoRowsInserted \/ CloseQuery)
    /\ pc = "connect" => ENABLED NewConnection
    /\ pc = "exec" => ENABLED Exec
    /\ pc = "close" => ENABLED Close
    /\ pc = "respond" => ENABLED Respond

\* a denied batch that also fails the later checks (empty list, unknown
\* framework) is answered by the rate limit's status
C6_Witness ==
    /\ pc = "done"
    /\ Denied
    /\ Len(body.requests) = 0
    /\ ~KnownFramework
    /\ responses = <<StatusTooManyRequests>>

\* a batch-level check rejects the request
BatchRejected ==
    \/ ~Parses
    \/ body.api_key = ""
    \/ Denied
    \/ Len(body.requests) = 0
    \/ ~KnownFramework
    \/ PassingEvents = {}

\* C7: a request that a batch-level check rejects ends with 400 or 429 having
\* acquired no connection and executed no insert; one rejected before the
\* loop (up to the unknown framework) has visited no event; one whose events
\* are all dropped is answered 400.
C7_RejectedBeforeStorage ==
    /\ (pc \notin {"idle", "bind"} /\ BatchRejected) =>
          /\ conn = "none"
          /\ execErr = "none"
          /\ stored = <<>>
          /\ pc \in {"admitted", "loop", "logged", "done"}
          /\ pc = "done" => responses[1] \in {StatusBadRequest, StatusTooManyRequests}
    /\ (pc \notin {"idle", "bind"} /\
        (~Parses \/ body.api_key = "" \/ Denied \/ Len(body.requests) = 0 \/ ~KnownFramework)) =>
          /\ idx = 1
          /\ arguments = <<>>
          /\ badUserAgents = <<>>
          /\ query = <<>>
          /\ pc \in {"admitted", "done"}
    /\ (pc = "done" /\ Parses /\ body.api_key # "" /\ ~Denied /\ PassingEvents = {}) =>
          responses = <<StatusBadRequest>>

\* the scenario with an unknown method: one event, dropped, answered 400
\* without a storage call
C7_Witness ==
    /\ pc = "done"
    /\ payload = [Scenario(1) EXCEPT !.Requests = <<[BaseEvent EXCEPT !.method = "BOGUS"]>>]
    /\ limiterCalls = <<FALSE>>
    /\ idx = 2
    /\ responses = <<StatusBadRequest>>
    /\ conn = "none"

\* the input indices of the events that pass the per-event checks, in order
RECURSIVE PassingUpTo(_)
PassingUpTo(n) ==
    IF n = 0 THEN <<>>
    ELSE IF PassesEventChecks(payload.Requests[n])
         THEN Append(PassingUpTo(n - 1), n)
         ELSE PassingUpTo(n - 1)

\* C8: in a batch that passed the batch-level checks, the rows built are
\* exactly the visited events that pass the per-event checks, in input
\* order, and the loop visits every event (a dropped event has no row and
\* does not end the loop); and when
\* some event passes and storage succeeds the response is 201 and the stored
\* rows are those of all passing events.
C8_DropsDoNotAbortBatch ==
    Len(payload.Requests) <= maxInsert =>
        /\ [j \in 1..Len(origin) |-> origin[j].index] = PassingUpTo(idx - 1)
        /\ (pc = "done" /\ Parses /\ body.api_key # "" /\ ~Denied /\ KnownFramework
              /\ PassingEvents # {} /\ execErr = "nil") =>
              /\ idx = Len(payload.Requests) + 1
              /\ responses = <<StatusCreated>>
              /\ [j \in 1..Len(origin) |-> origin[j].index] = PassingUpTo(Len(payload.Requests))
              /\ NumRows(stored) = Cardinality(PassingEvents)

\* a batch whose first event was dropped for its hostname and whose second
\* event was stored
C8_Witness ==
    /\ pc = "done"
    /\ responses = <<StatusCreated>>
    /\ Len(payload.Requests) = 2
    /\ payload.Requests[1].hostname = <<"ctl">>
    /\ NumRows(stored) = 1
    /\ origin[1].index = 2

Min(a, b) == IF a < b THEN a ELSE b

C10_CreatedOnlyAfterInsert ==
    /\ (\E k \in 1..Len(responses) : responses[k] = StatusCreated) =>
          /\ execErr = "nil"
          /\ NumRows(stored) >= 1
          /\ stored = arguments
          /\ conn = "closed"
    /\ execErr = "error" =>
          /\ stored = <<>>
          /\ \A k \in 1..Len(responses) : responses[k] = StatusBadRequest
          /\ pc = "done" => responses = <<StatusBadRequest>>

\* the storage call failed and the invocation ended with 400
C10_Witness ==
    /\ pc = "done"
    /\ execErr = "error"
    /\ inserted >= 1
    /\ responses = <<StatusBadRequest>>

\* the statement was completed: the invocation reached the insert
ReachedInsert == pc \in {"connect", "exec", "close", "respond"} \/ (pc = "done" /\ conn # "none")

\* the placeholder groups of a statement, in order
IsGroup(token) == token[1] = "group"
Groups(q) == SelectSeq(q, IsGroup)

\* the arguments the row of admitted event j is to carry
ExpectedRow(j) ==
    LET e == Event(j)
    IN <<body.api_key, Truncate(e.path), Truncate(e.hostname),
         IF payload.PrivacyLevel = P1 THEN e.ip_address ELSE "",
         Truncate(e.user_agent), e.status, e.response_time,
         methodID[e.method], frameworkID[body.framework],
         IF payload.PrivacyLevel < P3 /\ origin[j].opened /\ ParseIP(e.ip_address)
         THEN IsoCode(e.ip_address) ELSE "",
         Truncate(e.user_id), e.created_at>>

\* C14: a statement that reaches the insert with k admitted rows has exactly
\* k placeholder groups, group i holding the indices 12(i-1)+1 .. 12i, so
\* that the indices run 1, 2, ..., 12k without a gap; the argument list has
\* 12k elements, and the arguments of group i are those of the i-th admitted
\* event, the admitted events being taken in input order.
C14_PlaceholdersContiguous ==
    ReachedInsert =>
        LET gs == Groups(query)
            k == inserted
        IN /\ k >= 1
           /\ Len(gs) = k
           /\ \A i \in 1..k :
                 gs[i] = <<"group">> \o [j \in 1..ColumnsPerRow |-> ColumnsPerRow * (i - 1) + j]
           /\ Len(arguments) = ColumnsPerRow * k
           /\ Len(origin) = k
           /\ \A i \in 1..k : Row(arguments, i) = ExpectedRow(i)
           /\ \A i \in 1..(k - 1) : origin[i].index < origin[i + 1].index

\* an event dropped between two admitted ones: two groups, 1..12 and 13..24
C14_Witness ==
    /\ ReachedInsert
    /\ Len(payload.Requests) = 3
    /\ [i \in 1..Len(origin) |-> origin[i].index] = <<1, 3>>
    /\ Groups(query)[2][2] = 13
    /\ Len(arguments) = 24

\* C17: from the first admitted row on, the statement is the header, the
\* placeholder groups with one comma between each two of them, and, once it
\* reached the insert, the closing semicolon: k groups and k-1 commas, no
\* comma first, last or doubled, whichever events were dropped and also when
\* the ceiling ended the loop.
C17_CommasBetweenGroups ==
    (pc \in {"logged", "connect", "exec", "close", "respond", "done"} /\ inserted >= 1) =>
        LET closed == IF ReachedInsert THEN 1 ELSE 0
            k == inserted
        IN /\ Len(query) = 1 + (2 * k - 1) + closed
           /\ query[1] = InsertHeader
           /\ \A n \in 1..(2 * k - 1) :
                 IF n % 2 = 1 THEN IsGroup(query[1 + n]) ELSE query[1 + n] = <<",">>
           /\ Cardinality({ n \in 1..Len(query) : query[n] = <<",">> }) = k - 1
           /\ ReachedInsert => query[Len(query)] = <<";">>

\* the first event dropped and the ceiling reached: 2000 groups, 1999 commas
C17_Witness ==
    /\ ReachedInsert
    /\ payload.Requests[1].method = "BOGUS"
    /\ inserted = maxInsert
    /\ IsGroup(query[2])
    /\ Len(query) = 2 * maxInsert + 1

\* C15: a connection is acquired only at the insert step of a request that
\* passed every check and admitted a row, once in an invocation; it is
\* released before the response is written, after a successful and after a
\* failed insert alike, and no invocation ends holding one.
C15_ConnectionReleased ==
    /\ [](/\ conn # "none" =>
               /\ Parses /\ body.api_key # "" /\ limiterCalls = <<FALSE>>
               /\ KnownFramework /\ inserted >= 1
               /\ query[Len(query)] = <<";">>
               /\ pc \in {"exec", "close", "respond", "done"}
          /\ conn = "open" => pc \in {"exec", "close"}
          /\ execErr # "none" => conn # "none"
          /\ pc = "respond" => conn = "closed"
          /\ responses # <<>> => conn \in {"none", "closed"}
          /\ (pc = "done" /\ execErr # "none") => conn = "closed")
    /\ [][conn' # conn =>
             \/ conn = "none" /\ conn' = "open" /\ pc = "connect"
             \/ conn = "open" /\ conn' = "closed" /\ pc = "close"
             \/ conn = "closed" /\ conn' = "none" /\ pc = "done"]_vars

\* the insert failed and the invocation ended with its connection released
C15_Witness ==
    /\ pc = "done"
    /\ execErr = "error"
    /\ conn = "closed"
    /\ responses = <<StatusBadRequest>>

\* C16: under P2 and P3 the redaction step applied to the event that the
\* handler's redaction produced changes nothing: the address, empty after the
\* first application, is empty after the second, the rest of the event is the
\* same, and the second application finds no location to infer (no lookup
\* is made for an empty address), whether or not the database opens.
C16_RedactionIdempotent ==
    payload.PrivacyLevel \in {P2, P3} =>
        \A j \in 1..Len(origin) : \A reopened \in BOOLEAN :
           LET first == RedactionStep(payload.PrivacyLevel, Event(j), origin[j].opened)
               second == RedactionStep(payload.PrivacyLevel, first.request, reopened)
           IN /\ first.request.ip_address = Field(arguments, j, ColIP)
              /\ first.location = Field(arguments, j, ColLocation)
              /\ second.request = first.request
              /\ second.request.ip_address = ""
              /\ second.location = ""

\* a P2 row built from an event with an address, located by the first
\* application
C16_Witness ==
    /\ payload.PrivacyLevel = P2
    /\ \E j \in 1..Len(origin) :
          /\ Event(j).ip_address = "8.8.8.8"
          /\ Field(arguments, j, ColLocation) = "US"
          /\ Field(arguments, j, ColIP) = ""

\* C19: the rate limiter is asked once by an invocation whose request parsed
\* and carries a key, before any later check, and not at all by one whose
\* request failed to parse or has no key; an admitted batch is counted for
\* its key also when the invocation then ends with 400.
C19_LimiterAskedOnce ==
    /\ pc \in {"idle", "bind"} => limiterCalls = <<>>
    /\ pc \notin {"idle", "bind"} =>
          Len(limiterCalls) = (IF Parses /\ body.api_key # "" THEN 1 ELSE 0)
    /\ limiterCalls = <<FALSE>> => accessCount[body.api_key] >= 1
    /\ (pc = "done" /\ limiterCalls = <<FALSE>> /\ responses = <<StatusBadRequest>>) =>
          /\ accessCount[body.api_key] >= 1
          /\ \/ Len(body.requests) = 0
             \/ ~KnownFramework
             \/ PassingEvents = {}
             \/ execErr = "error"

\* a batch with an empty list was answered 400 and used up its key's limit
C19_Witness ==
    /\ pc = "done"
    /\ limiterCalls = <<FALSE>>
    /\ Len(body.requests) = 0
    /\ responses = <<StatusBadRequest>>
    /\ accessCount[body.api_key] = RateLimit
    /\ RateLimited(body.api_key)

\* the batches of the Go client that the logger has received
Received == { i \in 1..Len(sender) : sender[i].state = "received" }

\* C20: the client marshals status and response_time as the numbers they
\* are, and the logger decodes them into int16 fields: an invocation whose
\* body is well formed but holds an event with a status or response_time
\* outside -32768..32767 does not get past the parse step, whatever its other
\* events are; it asks the rate limiter nothing, visits no event, builds no
\* argument, acquires no connection and stores nothing, and it ends with 400.
C20_OverflowRejectsBatch ==
    /\ \A i \in Received :
          Overflowing(Marshal(sender[i].data)) =
             { k \in 1..Len(sender[i].data.Requests) :
                  \/ sender[i].data.Requests[k].status \notin Int16
                  \/ sender[i].data.Requests[k].response_time \notin Int16 }
    /\ (pc # "idle" /\ body.wellFormed /\ Overflowing(body) # {}) =>
          /\ pc \in {"bind", "done"}
          /\ limiterCalls = <<>>
          /\ payload = NoPayload
          /\ idx = 1
          /\ arguments = <<>>
          /\ query = <<>>
          /\ conn = "none"
          /\ execErr = "none"
          /\ stored = <<>>
          /\ pc = "done" => responses = <<StatusBadRequest>>

\* a batch of the client with a well-formed event and an event whose
\* response_time is -40000 was answered 400
C20_Witness ==
    /\ pc = "done"
    /\ responses = <<StatusBadRequest>>
    /\ \E i \in Received : body = Marshal(sender[i].data)
    /\ Len(body.requests) = 2
    /\ body.requests[1] = BaseEvent
    /\ body.requests[2].response_time = -40000
    /\ limiterCalls = <<>>
    /\ stored = <<>>

====
